---- MODULE Spec2Model ----
(***************************************************************************)
(* Model of darts/explainability/shap_explainer.py: the ShapExplainer      *)
(* wrapper and its helper RegressionShapExplainers (lagged matrix builder, *)
(* attribution-engine dispatch, last-foreground cache).                    *)
(***************************************************************************)
EXTENDS Integers, Sequences, FiniteSets, TLC

(***************************************************************************)
(* Bounds of the model.                                                    *)
(***************************************************************************)
\* largest output_chunk_length of a modelled regression model
MaxN == 2
\* largest number of target components
MaxDim == 2
\* longest time series (number of time steps)
MaxLen == 3
\* latest start time of a series (starts range over 0..MaxStart)
MaxStart == 1

(***************************************************************************)
(* Python values.                                                          *)
(***************************************************************************)
\* Python's None
None == [ty |-> "None"]
\* pandas' missing value (no series value is the empty tuple)
NaN == <<>>

\* an exception that propagates to the caller
Raise(e) == [ok |-> FALSE, err |-> e]
\* a value returned normally
Return(v) == [ok |-> TRUE, val |-> v]

(***************************************************************************)
(* darts.TimeSeries: a contiguous time index start..start+len-1, named     *)
(* components, one value per (time, component).  A value is written as    *)
(* the triple (series id, component number, time) it was observed at, so   *)
(* two series are equal exactly when index, columns and values are equal.  *)
(***************************************************************************)
TimeSeries(id, start, len, cols) == [ty |-> "TimeSeries", id |-> id, start |-> start, len |-> len, cols |-> cols]

\* TimeSeries.time_index, as the set of its time steps
time_index(s) == s.start .. (s.start + s.len - 1)

\* value of component number i of series s at time t
ValueAt(s, i, t) == <<s.id, i, t>>

\* a Python list of series
List(items) == [ty |-> "list", items |-> items]

(***************************************************************************)
(* pandas frames: cols is the sequence of column labels, idx the set of    *)
(* row labels (times) and cell[t] the row at t, one value per column.      *)
(***************************************************************************)
\* TimeSeries.pd_dataframe
pd_dataframe(s) ==
    [cols |-> s.cols,
     idx  |-> time_index(s),
     cell |-> [t \in time_index(s) |-> [i \in 1..Len(s.cols) |-> ValueAt(s, i, t)]]]

\* DataFrame.shift(periods): the row at position p takes the values of the
\* row at position p - periods; rows without such a row are filled with NaN.
\* The index is contiguous, so positions and times differ by a constant.
shift(df, periods) ==
    [cols |-> df.cols,
     idx  |-> df.idx,
     cell |-> [t \in df.idx |->
                 [i \in 1..Len(df.cols) |->
                    IF (t - periods) \in df.idx THEN df.cell[t - periods][i] ELSE NaN]]]

\* DataFrame.rename(columns = {c: c + suffix}): the new label of column c
\* of a frame shifted by lag, for the block kind ("target", "past", "fut")
rename(df, kind, lag) ==
    [cols |-> [i \in 1..Len(df.cols) |-> <<df.cols[i], kind, lag>>],
     idx  |-> df.idx,
     cell |-> df.cell]

RECURSIVE ConcatCols(_)
\* labels of pd.concat(frames, axis=1): the frames' columns, in order
ConcatCols(frames) ==
    IF frames = <<>> THEN <<>>
    ELSE frames[1].cols \o ConcatCols(Tail(frames))

RECURSIVE ConcatRow(_, _)
\* row t of pd.concat(frames, axis=1): a frame without row t gives NaN
ConcatRow(frames, t) ==
    IF frames = <<>> THEN <<>>
    ELSE (IF t \in frames[1].idx THEN frames[1].cell[t]
          ELSE [i \in 1..Len(frames[1].cols) |-> NaN])
         \o ConcatRow(Tail(frames), t)

\* pd.concat(frames, axis=1): outer join on the union of the indices
concat_axis1(frames) ==
    LET idx == UNION {frames[k].idx : k \in 1..Len(frames)}
    IN [cols |-> ConcatCols(frames),
        idx  |-> idx,
        cell |-> [t \in idx |-> ConcatRow(frames, t)]]

\* the frame were rows with a missing value kept
dropna_KeepsIncomplete(df) == df

\* DataFrame.dropna(): rows holding a missing value are dropped
dropna(df) ==
    LET keep == {t \in df.idx : \A i \in 1..Len(df.cols) : df.cell[t][i] # NaN}
    IN [cols |-> df.cols, idx |-> keep, cell |-> [t \in keep |-> df.cell[t]]]

RECURSIVE SortedTimes(_)
\* the times of a set in ascending order
SortedTimes(S) ==
    IF S = {} THEN <<>>
    ELSE LET m == CHOOSE x \in S : \A y \in S : x <= y
         IN <<m>> \o SortedTimes(S \ {m})

\* the rows of a frame in index order, each with its time label
Rows(df) ==
    LET ts == SortedTimes(df.idx)
    IN [k \in 1..Len(ts) |-> [t |-> ts[k], v |-> df.cell[ts[k]]]]

(***************************************************************************)
(* RegressionShapExplainers._create_RegressionModel_shap_X                 *)
(***************************************************************************)
\* truth value of an optional series, list of series or list of lags:
\* None and the empty list are false
Truthy(x) == x.ty = "TimeSeries" \/ (x.ty = "list" /\ x.items # <<>>)

\* the frames of one variable were the frame shifted the other way, by
\* df.shift(lag)
LagFrames_ShiftedForward(df, lagItems, kind) ==
    [k \in 1..Len(lagItems) |-> rename(shift(df, lagItems[k]), kind, lagItems[k])]

\* the renamed shifted frames of one variable, one per configured lag, in
\* the order of the lag list (lines 477-486 and 491-504)
LagFrames(df, lagItems, kind) ==
    [k \in 1..Len(lagItems) |-> rename(shift(df, -lagItems[k]), kind, lagItems[k])]

\* the frames df_X collected for one target series and its covariates
SeriesFrames(lags, target_ts, past_ts, future_ts) ==
    (IF lags.target.ty # "None"
     THEN LagFrames(pd_dataframe(target_ts), lags.target.items, "target") ELSE <<>>)
    \o (IF Truthy(lags.past)
        THEN LagFrames(pd_dataframe(past_ts), lags.past.items, "past") ELSE <<>>)
    \o (IF Truthy(lags.future)
        THEN LagFrames(pd_dataframe(future_ts), lags.future.items, "fut") ELSE <<>>)

\* pd.concat(df_X, axis=1).dropna() (line 507); pd.concat raises when no
\* lag is configured and df_X is empty
CombineLags(df_X) ==
    IF df_X = <<>> THEN Raise("ValueError")
    ELSE Return(dropna(concat_axis1(df_X)))

\* one pass of the loop over the series (lines 456-507): the block of rows
\* of series number idx, or the exception the pass raises
SeriesBlock(lags, targets, pasts, futures, idx) ==
    IF (Truthy(pasts) /\ idx > Len(pasts.items)) \/ (Truthy(futures) /\ idx > Len(futures.items))
    THEN Raise("IndexError")
    ELSE IF (Truthy(lags.past) /\ ~Truthy(pasts)) \/ (Truthy(lags.future) /\ ~Truthy(futures))
    THEN Raise("AttributeError")
    ELSE CombineLags(SeriesFrames(lags, targets.items[idx],
                                  IF Truthy(pasts) THEN pasts.items[idx] ELSE None,
                                  IF Truthy(futures) THEN futures.items[idx] ELSE None))

\* the block b of one series followed by the blocks of the series after
\* it: the first exception raised ends the loop
JoinBlocks(b, rest) ==
    IF ~b.ok THEN b
    ELSE IF ~rest.ok THEN rest
    ELSE Return([cols |-> b.val.cols, rows |-> Rows(b.val) \o rest.val.rows])

RECURSIVE ConcatBlocks(_, _, _, _, _)
\* the loop over the series and pd.concat(Xs, axis=0) of its blocks, from
\* series number idx on
ConcatBlocks(lags, targets, pasts, futures, idx) ==
    IF idx > Len(targets.items) THEN Return([cols |-> <<>>, rows |-> <<>>])
    ELSE JoinBlocks(SeriesBlock(lags, targets, pasts, futures, idx),
                    ConcatBlocks(lags, targets, pasts, futures, idx + 1))

\* lines 509-515: pd.concat raises when there is no series; with n_samples
\* the call shap.utils.sample(n_samples, X) passes the integer where the
\* matrix is expected and raises
Sampled(targets, X, n_samples) ==
    IF targets.items = <<>> THEN Raise("ValueError")
    ELSE IF ~X.ok THEN X
    ELSE IF n_samples # 0 THEN Raise("AttributeError")
    ELSE X

\* lines 449-452: a single series is wrapped in a list
AsList(target_series, x) ==
    IF target_series.ty = "TimeSeries"
    THEN (IF Truthy(x) THEN List(<<x>>) ELSE None)
    ELSE x

\* _create_RegressionModel_shap_X(target_series, past_covariates,
\* future_covariates, n_samples) of a model with the given lags
_create_RegressionModel_shap_X(lags, target_series, past_covariates, future_covariates, n_samples) ==
    Sampled(AsList(target_series, target_series),
            ConcatBlocks(lags, AsList(target_series, target_series),
                         AsList(target_series, past_covariates),
                         AsList(target_series, future_covariates), 1),
            n_samples)

(***************************************************************************)
(* Python dictionaries: functions on their set of keys.                    *)
(***************************************************************************)
\* the empty dict {}
EmptyDict == <<>>
\* d[k] = v
Put(d, k, v) == [x \in (DOMAIN d) \cup {k} |-> IF x = k THEN v ELSE d[x]]
\* range(n), as a list
range(n) == [k \in 1..n |-> k - 1]

(***************************************************************************)
(* The attribution library (shap).                                         *)
(***************************************************************************)
\* shap.Explainer(estimator, background_X), replaced by shap.TreeExplainer
\* (estimator) when the library picked its tree algorithm (lines 317-329).
\* est names the wrapped estimator: <<>> is model.model itself, <<k>> is
\* model.model.estimators_[k].
Engine(est, tree) ==
    [ty |-> IF tree THEN "TreeExplainer" ELSE "Explainer", est |-> est, background |-> ~tree]

\* engine(X): the Explanation of every output of the wrapped estimator,
\* computed from the rows of X
Explain(engine, X) == [ty |-> "Explanation", est |-> engine.est, out |-> <<>>, data |-> X]

\* explanation[:, :, k]: the Explanation of output number k
Slice(explanation, k) == [ty |-> "Explanation", est |-> explanation.est, out |-> <<k>>, data |-> explanation.data]

\* X.index: the time labels of the rows of X
Index(X) == [k \in 1..Len(X.rows) |-> X.rows[k].t]

\* the Explanation handed back by shap_values_from_X (lines 420-427): the
\* time index of the explained rows is attached, base_values are raveled
Finish(shap_values, X) ==
    [ty |-> "Explanation", est |-> shap_values.est, out |-> shap_values.out, data |-> shap_values.data,
     time_index |-> Index(X), base_values |-> "ravel"]

(***************************************************************************)
(* RegressionShapExplainers.  An operation maps the object (self) to the   *)
(* object after it and the value it returns or the exception it raises;    *)
(* evals counts the evaluations of an attribution engine so far, and the   *)
(* evaluation number failAt (if any) is the one in which the library       *)
(* raises.                                                                 *)
(***************************************************************************)
\* the index used to pick one output of the multi-output Explanation
\* (lines 414-415)
OutputIndex(horizon, target_index) == horizon * target_index + target_index

\* the sub-estimator wrapped by the engine of (i, j) (lines 318 and 324)
EstimatorIndex(i, j) == i + j

\* self.target_dict (line 308): the position of every background column
target_dict(columns) ==
    [c \in {columns[i] : i \in 1..Len(columns)} |-> (CHOOSE i \in 1..Len(columns) : columns[i] = c) - 1]

\* self.explainers (lines 310-329): one engine per (horizon, target) when
\* the estimator is no native multi-output one, else one engine
BuildExplainers(model, target_dim) ==
    IF (target_dim > 1 \/ model.output_chunk_length > 1) /\ ~model.multioutput
    THEN [ty |-> "dict",
          at |-> [i \in 0..(model.output_chunk_length - 1) |->
                    [j \in 0..(target_dim - 1) |-> Engine(<<EstimatorIndex(i, j)>>, model.tree)]]]
    ELSE Engine(<<>>, model.tree)

\* the object after __init__, given the background matrix (lines 297-336)
Initialised(model, background_series, background_X) ==
    IF ~background_X.ok THEN background_X
    ELSE Return([ty |-> "RegressionShapExplainers",
                 model |-> model,
                 multioutput |-> model.multioutput,
                 target_dim |-> model.input_dim,
                 background_X |-> background_X.val,
                 target_dict |-> target_dict(background_series.cols),
                 explainers |-> BuildExplainers(model, model.input_dim),
                 cache_explainers |-> None,
                 cache_foreground_series |-> None,
                 cache_foreground_past_covariates |-> None,
                 cache_foreground_future_covariates |-> None,
                 cache_foreground_X |-> None,
                 foreground_changed |-> TRUE])

\* RegressionShapExplainers.__init__ (lines 288-336)
RegressionShapExplainers(model, background_series, background_past_covariates, background_future_covariates) ==
    Initialised(model, background_series,
                _create_RegressionModel_shap_X(model.lags, background_series,
                    background_past_covariates, background_future_covariates, 0))

\* the outcome of an operation on self: the object after it, what it
\* returns or raises, and the number of engine evaluations so far
Outcome(self, out, evals) == [self |-> self, out |-> out, evals |-> evals]

\* lines 405: the engine of (horizon, target) evaluated on X
EnsembleValues(self, X, horizon, target_name, evals, failAt) ==
    IF horizon \notin DOMAIN self.explainers.at THEN Outcome(self, Raise("KeyError"), evals)
    ELSE IF target_name \notin DOMAIN self.target_dict THEN Outcome(self, Raise("KeyError"), evals)
    ELSE IF evals + 1 = failAt THEN Outcome(self, Raise("LibraryError"), evals + 1)
    ELSE Outcome(self, Return(Finish(Explain(self.explainers.at[horizon][self.target_dict[target_name]], X), X)),
                 evals + 1)

\* lines 411-416: one output of the cached multi-output Explanation
CachedSlice(self, X, horizon, target_name, evals) ==
    IF target_name \notin DOMAIN self.target_dict THEN Outcome(self, Raise("KeyError"), evals)
    ELSE IF self.cache_explainers.ty = "None" THEN Outcome(self, Raise("TypeError"), evals)
    ELSE IF OutputIndex(horizon, self.target_dict[target_name]) >= self.model.output_chunk_length * self.target_dim
    THEN Outcome(self, Raise("IndexError"), evals)
    ELSE Outcome(self, Return(Finish(Slice(self.cache_explainers,
                                           OutputIndex(horizon, self.target_dict[target_name])), X)), evals)

\* the multi-output Explanation were computed only when there is none yet
NativeValues_ComputedOnce(self, X, horizon, target_name, evals, failAt) ==
    IF self.cache_explainers.ty # "None" THEN CachedSlice(self, X, horizon, target_name, evals)
    ELSE IF evals + 1 = failAt THEN Outcome(self, Raise("LibraryError"), evals + 1)
    ELSE CachedSlice([self EXCEPT !.cache_explainers = Explain(self.explainers, X)],
                     X, horizon, target_name, evals + 1)

\* lines 408-416: the multi-output Explanation is computed when the
\* foreground changed, and sliced
NativeValues(self, X, horizon, target_name, evals, failAt) ==
    IF ~self.foreground_changed THEN CachedSlice(self, X, horizon, target_name, evals)
    ELSE IF evals + 1 = failAt THEN Outcome(self, Raise("LibraryError"), evals + 1)
    ELSE CachedSlice([self EXCEPT !.cache_explainers = Explain(self.explainers, X)],
                     X, horizon, target_name, evals + 1)

\* line 418: the single engine evaluated on X
SingleValues(self, X, evals, failAt) ==
    IF evals + 1 = failAt THEN Outcome(self, Raise("LibraryError"), evals + 1)
    ELSE Outcome(self, Return(Finish(Explain(self.explainers, X), X)), evals + 1)

\* RegressionShapExplainers.shap_values_from_X (lines 394-427)
shap_values_from_X(self, X, horizon, target_name, evals, failAt) ==
    IF self.target_dim > 1 \/ self.model.output_chunk_length > 1
    THEN IF self.explainers.ty = "dict"
         THEN EnsembleValues(self, X, horizon, target_name, evals, failAt)
         ELSE NativeValues(self, X, horizon, target_name, evals, failAt)
    ELSE SingleValues(self, X, evals, failAt)

\* a.time_index == b.time_index: the element-wise comparison of two pandas
\* indices.  Indices of different lengths cannot be compared; otherwise the
\* result is an array with one truth value per time step.
IndexEq(a, b) ==
    IF a.ty = "None" \/ b.ty = "None" THEN Raise("AttributeError")
    ELSE IF a.len # b.len THEN Raise("ValueError")
    ELSE Return([k \in 1..a.len |-> (a.start = b.start)])

\* all(array)
All(array) == \A k \in DOMAIN array : array[k]

\* the rest of the chain once x == y is known: bool(x == y) raises for an
\* array of more than one element; when it is false the chain is x == y,
\* else it is y == z
ChainRest(first, b, c) ==
    IF ~first.ok THEN first
    ELSE IF Len(first.val) > 1 THEN Raise("ValueError")
    ELSE IF first.val = <<FALSE>> THEN first
    ELSE IndexEq(b, c)

\* all(chain), or the exception the chain raised
AllOf(chain) == IF ~chain.ok THEN chain ELSE Return(All(chain.val))

\* all(a.time_index == b.time_index == c.time_index) (lines 348-352).  The
\* chain x == y == z is (x == y) and (y == z): the truth value of the first
\* array is taken, and the third index is read only when it is true.
SameTimeIndex(a, b, c) == AllOf(ChainRest(IndexEq(a, b), b, c))

\* the latest start and the earliest end of the series
LastFirst(series) ==
    CHOOSE x \in {series[k].start : k \in 1..Len(series)} : \A k \in 1..Len(series) : series[k].start <= x
FirstLast(series) ==
    CHOOSE x \in {series[k].start + series[k].len - 1 : k \in 1..Len(series)} :
        \A k \in 1..Len(series) : x <= series[k].start + series[k].len - 1

\* darts.utils.retain_period_common_to_all: every series cut to the period
\* common to all of them; there must be such a period
retain_period_common_to_all(series) ==
    IF \E k \in 1..Len(series) : series[k].ty = "None" THEN Raise("AttributeError")
    ELSE IF LastFirst(series) > FirstLast(series) THEN Raise("ValueError")
    ELSE Return([k \in 1..Len(series) |->
                   [series[k] EXCEPT !.start = LastFirst(series),
                                     !.len = FirstLast(series) - LastFirst(series) + 1]])

\* the outcome of an attribution request: the outcome of the operation, the
\* warnings logged and the foreground matrices built so far
Traced(o, warnings, builds) ==
    [self |-> o.self, out |-> o.out, evals |-> o.evals, warnings |-> warnings, builds |-> builds]

\* lines 382-392: the inputs and the matrix are cached, the foreground is
\* marked changed and the attribution is computed from the cached matrix
Rebuilt(self, common, foreground_X, horizon, target_name, tr, failAt) ==
    IF ~foreground_X.ok THEN Traced(Outcome(self, foreground_X, tr.evals), tr.warnings, tr.builds)
    ELSE Traced(shap_values_from_X([self EXCEPT !.cache_foreground_series = common[1],
                                                !.cache_foreground_past_covariates = common[2],
                                                !.cache_foreground_future_covariates = common[3],
                                                !.foreground_changed = TRUE,
                                                !.cache_foreground_X = foreground_X.val],
                                   foreground_X.val, horizon, target_name, tr.evals, failAt),
                tr.warnings, tr.builds + 1)

\* lines 369-392: the matrix is rebuilt unless the inputs are those of the
\* last computation
Cached(self, common, horizon, target_name, tr, failAt) ==
    IF ~common.ok THEN Traced(Outcome(self, common, tr.evals), tr.warnings, tr.builds)
    ELSE IF \/ self.cache_foreground_series # common.val[1]
            \/ self.cache_foreground_past_covariates # common.val[2]
            \/ self.cache_foreground_future_covariates # common.val[3]
    THEN Rebuilt(self, common.val,
                 _create_RegressionModel_shap_X(self.model.lags, common.val[1], common.val[2], common.val[3], 0),
                 horizon, target_name, tr, failAt)
    ELSE Traced(shap_values_from_X([self EXCEPT !.foreground_changed = FALSE],
                                   self.cache_foreground_X, horizon, target_name, tr.evals, failAt),
                tr.warnings, tr.builds)

\* lines 348-367: a warning is logged when the indices are not the same,
\* and the period common to all is retained
Aligned(self, same, series, horizon, target_name, tr, failAt) ==
    IF ~same.ok THEN Traced(Outcome(self, same, tr.evals), tr.warnings, tr.builds)
    ELSE Cached(self, retain_period_common_to_all(series), horizon, target_name,
                [tr EXCEPT !.warnings = IF same.val THEN @ ELSE @ + 1], failAt)

\* RegressionShapExplainers.shap_values (lines 338-392); tr is the trace of
\* the request so far
shap_values(self, foreground_series, foreground_past_covariates, foreground_future_covariates, horizon, target_name, tr, failAt) ==
    Aligned(self,
            SameTimeIndex(foreground_series, foreground_past_covariates, foreground_future_covariates),
            <<foreground_series, foreground_past_covariates, foreground_future_covariates>>,
            horizon, target_name, tr, failAt)

(***************************************************************************)
(* ShapExplainer.                                                          *)
(***************************************************************************)
\* ForecastingModelExplainer.__init__: the base explainer keeps the model
\* and the background data, the names of the background target components
\* (target_names) and the output length of the model (n)
ForecastingModelExplainer(model, background_series, background_past_covariates, background_future_covariates) ==
    [ty |-> "ShapExplainer",
     model |-> model,
     background_series |-> background_series,
     background_past_covariates |-> background_past_covariates,
     background_future_covariates |-> background_future_covariates,
     target_names |-> background_series.cols,
     n |-> model.output_chunk_length]

\* a trace with nothing logged, built or evaluated yet
NoTrace == [warnings |-> 0, builds |-> 0, evals |-> 0]

RECURSIVE TargetLoop(_, _, _, _, _, _)
\* dict_h[t] = r, then the rest of the loop; an exception ends the loop
TargetStep(r, fg, h, target_names, dict_h, failAt) ==
    IF ~r.out.ok THEN r
    ELSE TargetLoop(r, fg, h, Tail(target_names), Put(dict_h, target_names[1], r.out.val), failAt)

\* the loop over target_names for one horizon h (lines 193-201), from the
\* outcome o so far, filling dict_h; fg is the foreground data
TargetLoop(o, fg, h, target_names, dict_h, failAt) ==
    IF target_names = <<>> THEN [o EXCEPT !.out = Return(dict_h)]
    ELSE TargetStep(shap_values(o.self, fg[1], fg[2], fg[3], h, target_names[1], o, failAt),
                    fg, h, target_names, dict_h, failAt)

RECURSIVE HorizonLoop(_, _, _, _, _, _)
\* shap_values_dict[h] = dict_h, then the rest of the loop
HorizonStep(r, fg, horizons, target_names, shap_values_dict, failAt) ==
    IF ~r.out.ok THEN r
    ELSE HorizonLoop(r, fg, Tail(horizons), target_names, Put(shap_values_dict, horizons[1], r.out.val), failAt)

\* the loop over horizons (lines 192-202), filling shap_values_dict
HorizonLoop(o, fg, horizons, target_names, shap_values_dict, failAt) ==
    IF horizons = <<>> THEN [o EXCEPT !.out = Return(shap_values_dict)]
    ELSE HorizonStep(TargetLoop(o, fg, horizons[1], target_names, EmptyDict, failAt),
                     fg, horizons, target_names, shap_values_dict, failAt)

\* were an unspecified list to mean the first of them only
OrAll_First(given, all) == IF given.ty = "None" THEN SubSeq(all, 1, 1) ELSE given.items

\* lines 187-190 and 135-138: an unspecified list means all of them
OrAll(given, all) == IF given.ty = "None" THEN all ELSE given.items

\* ShapExplainer.shap_values (lines 150-204) on the explainer this with the
\* helper object self; horizons and target_names are lists or None
ShapExplainer_shap_values(this, self, foreground_series, foreground_past_covariates, foreground_future_covariates, horizons, target_names, failAt) ==
    HorizonLoop(Traced(Outcome(self, Return(EmptyDict), 0), 0, 0),
                <<foreground_series, foreground_past_covariates, foreground_future_covariates>>,
                OrAll(horizons, range(this.n)), OrAll(target_names, this.target_names),
                EmptyDict, failAt)

\* TimeSeries.from_times_and_values(time_index, values, columns): the
\* attribution values of an Explanation as a series over its time index
from_times_and_values(explanation) ==
    [ty |-> "TimeSeries", time_index |-> explanation.time_index,
     values |-> [est |-> explanation.est, out |-> explanation.out, data |-> explanation.data]]

\* lines 140-146: every Explanation of the requested horizons and targets
\* is replaced by a series
Converted(d, hs, ts) ==
    [h \in DOMAIN d |->
        [t \in DOMAIN d[h] |->
            IF (\E i \in 1..Len(hs) : hs[i] = h) /\ (\E j \in 1..Len(ts) : ts[j] = t)
            THEN from_times_and_values(d[h][t]) ELSE d[h][t]]]

\* lines 135-148, given the outcome r of shap_values
ConvertedOutcome(r, hs, ts) ==
    IF ~r.out.ok THEN r ELSE [r EXCEPT !.out = Return(Converted(r.out.val, hs, ts))]

\* ShapExplainer.explain_from_input (lines 118-148)
explain_from_input(this, self, foreground_series, foreground_past_covariates, foreground_future_covariates, horizons, target_names, failAt) ==
    ConvertedOutcome(ShapExplainer_shap_values(this, self, foreground_series, foreground_past_covariates,
                                               foreground_future_covariates, horizons, target_names, failAt),
                     OrAll(horizons, range(this.n)), OrAll(target_names, this.target_names))

(***************************************************************************)
(* The inputs the model draws from.                                        *)
(***************************************************************************)
\* names of the components of a target series, in column order
ComponentNames == <<"a", "b", "c", "d">>
\* the columns of a target series with dim components
TargetColumns(dim) == SubSeq(ComponentNames, 1, dim)
\* a target name no background series has
AbsentName == "z"

\* model.lags of the regression models: future-covariate lags only, or
\* lags of the target and of both covariates
LagChoices ==
    {[target |-> None, past |-> None, future |-> List(<<0>>)],
     [target |-> List(<<-1>>), past |-> List(<<-1>>), future |-> List(<<0>>)]}

\* the fitted regression models: output_chunk_length, number of target
\* components, the estimator's multioutput tag, whether the library picks
\* its tree algorithm for the estimator, and the lags
RegressionModels ==
    [isRegressionModel : {TRUE}, output_chunk_length : 1..MaxN, input_dim : 1..MaxDim,
     multioutput : BOOLEAN, tree : BOOLEAN, lags : LagChoices]

\* a forecasting model that is no RegressionModel
OtherModel ==
    [isRegressionModel |-> FALSE, output_chunk_length |-> 1, input_dim |-> 1,
     multioutput |-> FALSE, tree |-> FALSE,
     lags |-> [target |-> List(<<-1>>), past |-> None, future |-> None]]

\* the background data of a model: series of MaxLen steps from time 0
BackgroundSeries(model) == TimeSeries(0, 0, MaxLen, TargetColumns(model.input_dim))
BackgroundPast == TimeSeries(8, 0, MaxLen, <<"p">>)
BackgroundFuture == TimeSeries(9, 0, MaxLen, <<"f">>)

\* longest foreground series
MaxFgLen == 2

\* the foreground series and covariates of a request: target series with
\* different values, covariates present or not, aligned with the target or
\* starting later, of the same or of another length
ForegroundSeries(dim) == {TimeSeries(id, 0, len, TargetColumns(dim)) : id \in 1..2, len \in 1..MaxFgLen}
ForegroundPast(fs) == {None} \cup {TimeSeries(8, start, fs.len, <<"p">>) : start \in 0..MaxStart}
ForegroundFuture == {None} \cup {TimeSeries(9, 0, len, <<"f">>) : len \in 1..MaxFgLen}

\* the horizons of a request: unspecified, the first k horizons, or one
\* horizon beyond every modelled output length
HorizonChoices == {None} \cup {List(range(k)) : k \in 1..MaxN} \cup {List(<<MaxN>>)}
\* the target names of a request: unspecified, the first k component names,
\* or a name no background series has
TargetNameChoices == {None} \cup {List(TargetColumns(k)) : k \in 1..MaxDim} \cup {List(<<AbsentName>>)}

\* the engine evaluation of a request in which the library raises (0: none)
MaxFail == 1

(***************************************************************************)
(* State.                                                                  *)
(***************************************************************************)
VARIABLES
    explainer,   \* the ShapExplainer (None until the base explainer is initialised)
    explainers,  \* its RegressionShapExplainers, self.explainers (None until built)
    call,        \* the operation called last and its arguments (op "none": handed back)
    outcome,     \* what that operation returned or raised
    trace,       \* warnings logged, matrices built and engine evaluations of that operation
    clean,       \* every request since construction returned
    forecaster,  \* the forecasting model of the test harness (None where there is none)
    files        \* the files of the working directory of the test harness

vars == <<explainer, explainers, call, outcome, trace, clean, forecaster, files>>

NoCall == [op |-> "none"]

Init ==
    /\ explainer = None
    /\ explainers = None
    /\ call = NoCall
    /\ outcome = Return(None)
    /\ trace = NoTrace
    /\ clean = TRUE
    /\ forecaster = None
    /\ files = {}

\* lines 111-116: self.explainers is built for the base explainer this
WithExplainers(this, self) ==
    IF ~self.ok THEN [this |-> this, self |-> None, out |-> self]
    ELSE [this |-> this, self |-> self.val, out |-> Return(None)]

\* lines 104-116: the base explainer is initialised, then the helper built
Explained(this) ==
    WithExplainers(this, RegressionShapExplainers(this.model, this.background_series,
                             this.background_past_covariates, this.background_future_covariates))

\* the constructor were the base explainer initialised before the model
\* type is looked at
ShapExplainer_BaseFirst(model, background_series, background_past_covariates, background_future_covariates) ==
    IF ~model.isRegressionModel
    THEN [this |-> ForecastingModelExplainer(model, background_series,
                       background_past_covariates, background_future_covariates),
          self |-> None, out |-> Raise("ValueError")]
    ELSE Explained(ForecastingModelExplainer(model, background_series,
                       background_past_covariates, background_future_covariates))

\* ShapExplainer(model, background_series, background_past_covariates,
\* background_future_covariates) (lines 96-116)
ShapExplainer(model, background_series, background_past_covariates, background_future_covariates) ==
    IF ~model.isRegressionModel
    THEN [this |-> None, self |-> None, out |-> Raise("ValueError")]
    ELSE Explained(ForecastingModelExplainer(model, background_series,
                       background_past_covariates, background_future_covariates))

\* the state after the constructor call r
Constructed(model, r) ==
    /\ explainer' = r.this
    /\ explainers' = r.self
    /\ call' = [op |-> "__init__", model |-> model]
    /\ outcome' = r.out
    /\ trace' = NoTrace
    /\ clean' = TRUE
    /\ UNCHANGED <<forecaster, files>>

\* the caller constructs the explainer
Construct ==
    /\ call = NoCall
    /\ explainer.ty = "None"
    /\ \E model \in RegressionModels \cup {OtherModel} :
          Constructed(model, ShapExplainer(model, BackgroundSeries(model), BackgroundPast, BackgroundFuture))

\* the state after a request r with the given arguments
Requested(op, fs, fp, ff, horizons, target_names, r) ==
    /\ explainers' = r.self
    /\ call' = [op |-> op, series |-> fs, past |-> fp, future |-> ff,
                horizons |-> horizons, target_names |-> target_names]
    /\ outcome' = r.out
    /\ trace' = [warnings |-> r.warnings, builds |-> r.builds, evals |-> r.evals]
    /\ clean' = (clean /\ r.out.ok)
    /\ UNCHANGED <<forecaster, files>>
    /\ UNCHANGED explainer

\* the caller requests attributions with shap_values
ShapValues ==
    /\ call = NoCall
    /\ explainers.ty # "None"
    /\ \E fs \in ForegroundSeries(explainers.target_dim), ff \in ForegroundFuture,
          horizons \in HorizonChoices, target_names \in TargetNameChoices, failAt \in 0..MaxFail :
          \E fp \in ForegroundPast(fs) :
             Requested("shap_values", fs, fp, ff, horizons, target_names,
                       ShapExplainer_shap_values(explainer, explainers, fs, fp, ff, horizons, target_names, failAt))

\* the caller requests attributions with explain_from_input
ExplainFromInput ==
    /\ call = NoCall
    /\ explainers.ty # "None"
    /\ \E fs \in ForegroundSeries(explainers.target_dim), ff \in ForegroundFuture,
          horizons \in HorizonChoices, target_names \in TargetNameChoices, failAt \in 0..MaxFail :
          \E fp \in ForegroundPast(fs) :
             Requested("explain_from_input", fs, fp, ff, horizons, target_names,
                       explain_from_input(explainer, explainers, fs, fp, ff, horizons, target_names, failAt))

\* the operation has returned or raised: its result is with the caller
Handed ==
    /\ call # NoCall
    /\ call' = NoCall
    /\ outcome' = Return(None)
    /\ trace' = NoTrace
    /\ UNCHANGED <<explainer, explainers, clean, forecaster, files>>

Next == Construct \/ ShapValues \/ ExplainFromInput \/ Handed

Spec == Init /\ [][Next]_vars

(***************************************************************************)
(* What the last operation was asked.                                      *)
(***************************************************************************)
\* the elements of a list
Elements(seq) == {seq[i] : i \in 1..Len(seq)}

\* the last operation is an attribution request (shap_values or
\* explain_from_input)
IsRequest == call.op \in {"shap_values", "explain_from_input"}

\* the horizons and target names the request asks for (all when unspecified)
AskedHorizons ==
    IF call.horizons.ty = "None" THEN 0..(explainer.model.output_chunk_length - 1)
    ELSE Elements(call.horizons.items)
AskedTargets ==
    IF call.target_names.ty = "None" THEN Elements(explainer.background_series.cols)
    ELSE Elements(call.target_names.items)

\* every asked horizon is below the output length, every asked target is a
\* background column
HorizonsValid == \A h \in AskedHorizons : h <= explainer.model.output_chunk_length - 1
TargetsValid == AskedTargets \subseteq Elements(explainer.background_series.cols)

\* the request raised nothing, or only what the attribution library raised
ReturnedOrLibraryError == outcome.ok \/ outcome.err = "LibraryError"

(***************************************************************************)
(* Claims on the ShapExplainer operations, checked under Spec.             *)
(***************************************************************************)
\* C1: a request for a horizon beyond the output length of the model
\* (h > n - 1) raises an error instead of returning a result.
C1_HorizonBeyondOutputLengthRaises ==
    (IsRequest /\ ~HorizonsValid) => ~outcome.ok

\* C2: a request for a target name that is no column of the background
\* series raises an error instead of returning a result.
C2_UnknownTargetRaises ==
    (IsRequest /\ ~TargetsValid /\ AskedHorizons # {}) => ~outcome.ok

C4_KeysAreTheRequested ==
    (IsRequest /\ outcome.ok)
        => /\ DOMAIN outcome.val = AskedHorizons
           /\ \A h \in DOMAIN outcome.val : DOMAIN outcome.val[h] = AskedTargets

\* C4 witness: a request with unspecified horizons and targets returned the
\* attributions of two horizons and two targets
C4_Witness ==
    /\ IsRequest /\ outcome.ok
    /\ call.horizons = None /\ call.target_names = None
    /\ Cardinality(DOMAIN outcome.val) = 2
    /\ \A h \in DOMAIN outcome.val : Cardinality(DOMAIN outcome.val[h]) = 2

\* C5: for a model fitted without past covariates, a request that leaves
\* the past covariates out (None) and is otherwise valid returns its result.
C5_AbsentCovariateReturns ==
    (/\ IsRequest /\ HorizonsValid /\ TargetsValid
     /\ ~Truthy(explainer.model.lags.past)
     /\ call.past = None /\ call.future # None
     /\ time_index(call.series) = time_index(call.future))
        => ReturnedOrLibraryError

\* the series and covariates of the request are all given
AllGiven == call.past # None /\ call.future # None
\* ... and share one time index
SameIndex ==
    /\ time_index(call.series) = time_index(call.past)
    /\ time_index(call.past) = time_index(call.future)
\* the period common to the series and covariates of the request
CommonPeriod == time_index(call.series) \cap time_index(call.past) \cap time_index(call.future)

\* C6: a request whose series and covariates do not share one time index
\* (but overlap) logs a warning and raises nothing, the matrix being built
\* from the common period; with one shared index no warning is logged.
C6_DifferentIndexWarnsOnly ==
    (IsRequest /\ AllGiven /\ HorizonsValid /\ TargetsValid /\ AskedHorizons # {} /\ AskedTargets # {})
        => /\ (~SameIndex /\ CommonPeriod # {})
                => /\ trace.warnings > 0
                   /\ ReturnedOrLibraryError
                   /\ time_index(explainers.cache_foreground_series) = CommonPeriod
           /\ SameIndex => trace.warnings = 0

(***************************************************************************)
(* The lagged matrix as a function of its inputs: the inputs are drawn in  *)
(* the initial state and BuildMatrix applies the builder to them.          *)
(***************************************************************************)
\* model.lags of the models the matrix is built for
MatrixLags ==
    [target : {None, List(<<-1>>), List(<<-2, -1>>)},
     past   : {None, List(<<-1>>)},
     future : {None, List(<<0>>), List(<<-1, 1>>)}]

\* a single target series with optional covariates, aligned with it or not
SingleInputs ==
    {[target_series |-> TimeSeries(1, s, l, TargetColumns(d)), past_covariates |-> p, future_covariates |-> f] :
        s \in 0..MaxStart, l \in 1..MaxLen, d \in 1..MaxDim,
        p \in {None} \cup {TimeSeries(8, ps, MaxLen, <<"p">>) : ps \in 0..MaxStart},
        f \in {None} \cup {TimeSeries(9, fs, fl, <<"f">>) : fs \in 0..MaxStart, fl \in {MaxLen, MaxLen + 1}}}

\* two target series with optional lists of covariates (one list is short)
ListInputs ==
    {[target_series |-> List(<<TimeSeries(1, 0, MaxLen, TargetColumns(d)), TimeSeries(2, s, l, TargetColumns(d))>>),
      past_covariates |-> p, future_covariates |-> f] :
        s \in 0..MaxStart, l \in 1..MaxLen, d \in 1..MaxDim,
        p \in {None, List(<<TimeSeries(8, 0, MaxLen, <<"p">>)>>),
               List(<<TimeSeries(8, 0, MaxLen, <<"p">>), TimeSeries(7, 0, MaxLen + 1, <<"p">>)>>)},
        f \in {None, List(<<TimeSeries(9, 0, MaxLen + 1, <<"f">>), TimeSeries(6, 1, MaxLen, <<"f">>)>>)}}

InitMatrix ==
    /\ explainer = None
    /\ explainers = None
    /\ \E lags \in MatrixLags, in \in SingleInputs \cup ListInputs :
          call = [op |-> "inputs", lags |-> lags, target_series |-> in.target_series,
                  past_covariates |-> in.past_covariates, future_covariates |-> in.future_covariates]
    /\ outcome = Return(None)
    /\ trace = NoTrace
    /\ clean = TRUE
    /\ forecaster = None
    /\ files = {}

\* the builder is applied to the inputs
BuildMatrix ==
    /\ call.op = "inputs"
    /\ call' = [call EXCEPT !.op = "_create_RegressionModel_shap_X"]
    /\ outcome' = _create_RegressionModel_shap_X(call.lags, call.target_series,
                                                 call.past_covariates, call.future_covariates, 0)
    /\ UNCHANGED <<explainer, explainers, trace, clean, forecaster, files>>

NextMatrix == BuildMatrix

SpecMatrix == InitMatrix /\ [][NextMatrix]_vars

\* the builder returned a matrix
MatrixBuilt == call.op = "_create_RegressionModel_shap_X" /\ outcome.ok

\* the series given at position idx of an input (a single series is at
\* position 1), None when the input is absent
InputAt(x, idx) == IF x.ty = "list" THEN x.items[idx] ELSE x
\* the number of target series given
NumSeries == IF call.target_series.ty = "list" THEN Len(call.target_series.items) ELSE 1

\* the configured lags of a variable, as a sequence (none: empty)
LagsOf(l) == IF l.ty = "None" THEN <<>> ELSE l.items

\* the three variables in matrix order: block name, lags, input
Variables ==
    <<[kind |-> "target", lags |-> LagsOf(call.lags.target), input |-> call.target_series],
      [kind |-> "past",   lags |-> LagsOf(call.lags.past),   input |-> call.past_covariates],
      [kind |-> "fut",    lags |-> LagsOf(call.lags.future), input |-> call.future_covariates]>>

\* number of components of a variable with configured lags
Width(var) == IF var.lags = <<>> THEN 0 ELSE Len(InputAt(var.input, 1).cols)

\* the columns expected of one variable: position (k - 1) * width + i holds
\* component i at lag number k (lag-major, component-minor)
ExpectedBlock(var) ==
    [m \in 1..(Len(var.lags) * Width(var)) |->
        [comp |-> ((m - 1) % Width(var)) + 1, lag |-> var.lags[((m - 1) \div Width(var)) + 1], var |-> var]]

\* the columns expected of the matrix: target, past, future
ExpectedColumns == ExpectedBlock(Variables[1]) \o ExpectedBlock(Variables[2]) \o ExpectedBlock(Variables[3])

\* the label the builder gives an expected column
Label(col) == <<InputAt(col.var.input, 1).cols[col.comp], col.var.kind, col.lag>>

\* the cell expected at time t in a column, for the series at position idx
ExpectedCell(col, idx, t) == ValueAt(InputAt(col.var.input, idx), col.comp, t + col.lag)

\* C7: the matrix has exactly one column per (component, configured lag),
\* ordered target block, past block, future block, lag-major and
\* component-minor in the order of the lag lists, and the cell at row t of
\* the column of (c, l) holds the value of c at time t + l.
C7_ColumnsAndCells ==
    MatrixBuilt
        => /\ outcome.val.cols = [m \in 1..Len(ExpectedColumns) |-> Label(ExpectedColumns[m])]
           /\ \A r \in 1..Len(outcome.val.rows) :
                 /\ Len(outcome.val.rows[r].v) = Len(ExpectedColumns)
                 /\ \E idx \in 1..NumSeries :
                       \A m \in 1..Len(ExpectedColumns) :
                          outcome.val.rows[r].v[m] = ExpectedCell(ExpectedColumns[m], idx, outcome.val.rows[r].t)

\* C7 witness: a matrix with the three blocks, two target components, two
\* target lags and two future lags, and at least one row
C7_Witness ==
    /\ MatrixBuilt
    /\ Len(outcome.val.rows) > 0
    /\ Len(LagsOf(call.lags.target)) = 2 /\ Width(Variables[1]) = 2
    /\ Len(LagsOf(call.lags.past)) = 1
    /\ Len(LagsOf(call.lags.future)) = 2

\* the variables that have configured lags
Lagged == {v \in 1..3 : Variables[v].lags # <<>>}

\* the valid time steps of the series at position idx: the time steps t of
\* every lagged variable for which every lagged time t + l is one too
ValidTimes(idx) ==
    {t \in UNION {time_index(InputAt(Variables[v].input, idx)) : v \in Lagged} :
        \A v \in Lagged :
           /\ t \in time_index(InputAt(Variables[v].input, idx))
           /\ \A k \in 1..Len(Variables[v].lags) :
                 (t + Variables[v].lags[k]) \in time_index(InputAt(Variables[v].input, idx))}

\* the rows expected of the series at position idx, in time order
ExpectedRows(idx) ==
    LET ts == SortedTimes(ValidTimes(idx))
    IN [k \in 1..Len(ts) |->
          [t |-> ts[k], v |-> [m \in 1..Len(ExpectedColumns) |-> ExpectedCell(ExpectedColumns[m], idx, ts[k])]]]

RECURSIVE ExpectedRowsFrom(_)
\* the rows expected of the series from position idx on, in input order
ExpectedRowsFrom(idx) ==
    IF idx > NumSeries THEN <<>> ELSE ExpectedRows(idx) \o ExpectedRowsFrom(idx + 1)

\* C8, amended: the matrix has one row per valid time step: t is a row
\* exactly when, for every variable with configured lags, t is a time step
\* of the variable's series and every lagged time t + l is one too; with
\* several series the rows are the blocks of the series in input order,
\* each built from the covariates at the position of its target series.
C8_RowsAreValidTimes ==
    MatrixBuilt => outcome.val.rows = ExpectedRowsFrom(1)

\* the time steps t of the target series at position idx for which every
\* lagged time t + l exists in the series of its variable
LaggedValuesExist(idx) ==
    {t \in time_index(InputAt(call.target_series, idx)) :
        \A v \in Lagged : \A k \in 1..Len(Variables[v].lags) :
           (t + Variables[v].lags[k]) \in time_index(InputAt(Variables[v].input, idx))}

RECURSIVE LaggedValuesExistFrom(_)
\* those time steps in time order, for the series from position idx on
LaggedValuesExistFrom(idx) ==
    IF idx > NumSeries THEN <<>> ELSE SortedTimes(LaggedValuesExist(idx)) \o LaggedValuesExistFrom(idx + 1)

\* C8 as stated: time step t of a series is a row if and only if every
\* lagged value t + l exists in the corresponding series, the blocks of
\* the series following each other in input order.
C8_RowsWhereLaggedValuesExist ==
    MatrixBuilt => [r \in 1..Len(outcome.val.rows) |-> outcome.val.rows[r].t] = LaggedValuesExistFrom(1)

\* C8 witness: two series with covariates gave a block of rows each, and a
\* time step of the second series was dropped for a missing lagged value
C8_Witness ==
    /\ MatrixBuilt
    /\ NumSeries = 2
    /\ call.past_covariates # None /\ call.future_covariates # None
    /\ ValidTimes(1) # {} /\ ValidTimes(2) # {}
    /\ ValidTimes(2) # time_index(InputAt(call.target_series, 2))
    /\ Lagged = {1, 2, 3}

(***************************************************************************)
(* Calls of RegressionShapExplainers.shap_values one after the other on    *)
(* the helper object of one explainer.  A call handed back leaves its      *)
(* inputs in call, for the next call to be compared with.                  *)
(***************************************************************************)
\* the horizon and the target name of a call
HelperHorizons == 0..MaxN
HelperTargetNames == Elements(TargetColumns(MaxDim))

\* the state after the call r of the helper's shap_values
HelperCalled(fs, fp, ff, horizon, target_name, r) ==
    /\ explainers' = r.self
    /\ call' = [op |-> "RegressionShapExplainers.shap_values", inputs |-> List(<<fs, fp, ff>>),
                horizon |-> horizon, target_name |-> target_name, preceding |-> call.inputs]
    /\ outcome' = r.out
    /\ trace' = [warnings |-> r.warnings, builds |-> r.builds, evals |-> r.evals]
    /\ clean' = (clean /\ r.out.ok)
    /\ UNCHANGED <<forecaster, files>>
    /\ UNCHANGED explainer

\* the foreground series and covariates of a call: four that differ from
\* each other in one argument or another, one without past covariates, one
\* of two time steps and one whose past covariates start later
HelperInputs(dim) ==
    {<<TimeSeries(1, 0, 1, TargetColumns(dim)), TimeSeries(8, 0, 1, <<"p">>), TimeSeries(9, 0, 1, <<"f">>)>>,
     <<TimeSeries(2, 0, 1, TargetColumns(dim)), TimeSeries(8, 0, 1, <<"p">>), TimeSeries(9, 0, 1, <<"f">>)>>,
     <<TimeSeries(1, 0, 1, TargetColumns(dim)), TimeSeries(7, 0, 1, <<"p">>), TimeSeries(9, 0, 1, <<"f">>)>>,
     <<TimeSeries(1, 0, 1, TargetColumns(dim)), TimeSeries(8, 0, 1, <<"p">>), TimeSeries(6, 0, 1, <<"f">>)>>,
     <<TimeSeries(1, 0, 1, TargetColumns(dim)), None, TimeSeries(9, 0, 1, <<"f">>)>>,
     <<TimeSeries(1, 0, MaxFgLen, TargetColumns(dim)), TimeSeries(8, 0, MaxFgLen, <<"p">>),
       TimeSeries(9, 0, MaxFgLen, <<"f">>)>>,
     <<TimeSeries(1, 0, 1, TargetColumns(dim)), TimeSeries(8, MaxStart, 1, <<"p">>), TimeSeries(9, 0, 1, <<"f">>)>>}

\* the caller calls shap_values of the helper object
HelperCall ==
    /\ call.op = "handed"
    /\ explainers.ty # "None"
    /\ \E in \in HelperInputs(explainers.target_dim), horizon \in HelperHorizons,
          target_name \in HelperTargetNames, failAt \in 0..MaxFail :
          HelperCalled(in[1], in[2], in[3], horizon, target_name,
                       shap_values(explainers, in[1], in[2], in[3], horizon, target_name,
                                   Traced(Outcome(explainers, Return(None), 0), 0, 0), failAt))

\* the constructor or the call has returned or raised
HelperHanded ==
    /\ call.op \in {"__init__", "RegressionShapExplainers.shap_values"}
    /\ call' = [op |-> "handed", inputs |-> IF call.op = "__init__" THEN None ELSE call.inputs]
    /\ outcome' = Return(None)
    /\ trace' = NoTrace
    /\ UNCHANGED <<explainer, explainers, clean, forecaster, files>>

NextHelper == Construct \/ HelperCall \/ HelperHanded

SpecHelper == Init /\ [][NextHelper]_vars

\* the helper object of the explainer as constructed: nothing is cached
WithoutCache ==
    RegressionShapExplainers(explainer.model, explainer.background_series,
        explainer.background_past_covariates, explainer.background_future_covariates).val

\* what the helper object without a cache returns for the call
WithoutCacheResult ==
    shap_values(WithoutCache, call.inputs.items[1], call.inputs.items[2], call.inputs.items[3], call.horizon, call.target_name,
                Traced(Outcome(WithoutCache, Return(None), 0), 0, 0), 0).out

\* the matrix of the inputs of the call
InputsMatrix ==
    _create_RegressionModel_shap_X(explainer.model.lags, call.inputs.items[1], call.inputs.items[2], call.inputs.items[3], 0)

\* the matrix of the inputs of the call before it
PrecedingMatrix ==
    _create_RegressionModel_shap_X(explainer.model.lags, call.preceding.items[1], call.preceding.items[2],
                                   call.preceding.items[3], 0)

\* a call of the helper's shap_values returned, as did every call before it
SuccessfulCall == call.op = "RegressionShapExplainers.shap_values" /\ outcome.ok /\ clean

\* C9: after successful calls of shap_values, a call with the inputs of the
\* call before it builds no foreground matrix; a call with other inputs
\* builds one and replaces the three cached inputs and the cached matrix
\* together; either way the attribution returned is the one the explainer
\* without a cache returns for the inputs, the horizon and the target.
C9_CacheIsTransparent ==
    SuccessfulCall
        => /\ (call.preceding = call.inputs) => trace.builds = 0
           /\ (call.preceding # call.inputs)
                 => /\ trace.builds = 1
                    /\ explainers.cache_foreground_series = call.inputs.items[1]
                    /\ explainers.cache_foreground_past_covariates = call.inputs.items[2]
                    /\ explainers.cache_foreground_future_covariates = call.inputs.items[3]
                    /\ Return(explainers.cache_foreground_X) = InputsMatrix
           /\ outcome = WithoutCacheResult

\* C9 witness: on a native multi-output estimator, a successful call with
\* other inputs than the call before it, which had returned too
C9_Witness ==
    /\ SuccessfulCall
    /\ call.preceding # None
    /\ call.preceding # call.inputs
    /\ explainers.explainers.ty # "dict"
    /\ explainers.model.output_chunk_length > 1
    /\ Len(explainers.cache_foreground_X.rows) > 0
    /\ PrecedingMatrix # InputsMatrix

\* a successful call with the inputs of the call before it, for another
\* horizon, built no matrix
C9_RepeatedInputs ==
    /\ SuccessfulCall
    /\ call.preceding = call.inputs
    /\ call.horizon > 0
    /\ trace.builds = 0

(***************************************************************************)
(* Two threads calling RegressionShapExplainers.shap_values on the helper  *)
(* object of one explainer.  A step of a thread is one read or one write   *)
(* of a field of the shared object, together with the computation on the   *)
(* thread's own values that leads to it.  call[t] holds the position and   *)
(* the local values of thread t, outcome[t] what its call returned, and    *)
(* trace the threads whose matrices the cached matrix and the cached       *)
(* multi-output Explanation come from.                                     *)
(***************************************************************************)
Threads == {1, 2}

\* the foreground series and covariates of a thread: each thread explains
\* data of its own
ThreadInputs(t, dim) ==
    IF t = 1
    THEN <<TimeSeries(1, 0, 1, TargetColumns(dim)), TimeSeries(8, 0, 1, <<"p">>), TimeSeries(9, 0, 1, <<"f">>)>>
    ELSE <<TimeSeries(2, 0, 1, TargetColumns(dim)), TimeSeries(7, 0, 1, <<"p">>), TimeSeries(6, 0, 1, <<"f">>)>>

\* a thread that is not in a call
Idle ==
    [pc |-> "idle", inputs |-> None, horizon |-> 0, target_name |-> "", foreground_X |-> None,
     X |-> None, E |-> None, readFrom |-> 0, sliceFrom |-> 0]

\* the explainers constructed from the fitted models
Explainers ==
    {r \in {ShapExplainer(model, BackgroundSeries(model), BackgroundPast, BackgroundFuture) :
               model \in RegressionModels} : r.out.ok}

InitThreads ==
    /\ \E r \in Explainers : explainer = r.this /\ explainers = r.self
    /\ call = [t \in Threads |-> Idle]
    /\ outcome = [t \in Threads |-> Return(None)]
    /\ trace = [X |-> 0, E |-> 0]
    /\ clean = TRUE
    /\ forecaster = None
    /\ files = {}

\* thread t is at pc and moves to the local state next
Moves(t, next) ==
    /\ call' = [call EXCEPT ![t] = next]
    /\ UNCHANGED <<explainer, explainers, outcome, trace, clean, forecaster, files>>

\* thread t writes the shared object and moves on to pc
Writes(t, self, pc) ==
    /\ explainers' = self
    /\ call' = [call EXCEPT ![t].pc = pc]
    /\ UNCHANGED <<explainer, outcome, clean, forecaster, files>>

\* the call of thread t ends with the outcome out
Ends(t, out, next) ==
    /\ call' = [call EXCEPT ![t] = next]
    /\ outcome' = [outcome EXCEPT ![t] = out]
    /\ UNCHANGED <<explainer, explainers, trace, clean, forecaster, files>>

\* lines 348-367 of the call of thread t, given the outcome of the index
\* check and of retain_period_common_to_all
Begun(t, same, common, horizon, target_name) ==
    IF ~same.ok THEN Ends(t, same, [call[t] EXCEPT !.pc = "done"])
    ELSE IF ~common.ok THEN Ends(t, common, [call[t] EXCEPT !.pc = "done"])
    ELSE Moves(t, [call[t] EXCEPT !.pc = "compare series", !.inputs = List(common.val),
                                  !.horizon = horizon, !.target_name = target_name])

\* thread t calls shap_values with its inputs (lines 338-367)
Begin(t) ==
    /\ call[t].pc = "idle"
    /\ \E horizon \in 0..(explainers.model.output_chunk_length - 1),
          target_name \in Elements(TargetColumns(explainers.target_dim)) :
          Begun(t, SameTimeIndex(ThreadInputs(t, explainers.target_dim)[1], ThreadInputs(t, explainers.target_dim)[2],
                                 ThreadInputs(t, explainers.target_dim)[3]),
                retain_period_common_to_all(ThreadInputs(t, explainers.target_dim)), horizon, target_name)

\* line 371: self.cache_foreground_series != foreground_series
CompareSeries(t) ==
    /\ call[t].pc = "compare series"
    /\ Moves(t, [call[t] EXCEPT !.pc = IF explainers.cache_foreground_series # call[t].inputs.items[1]
                                       THEN "build" ELSE "compare past"])

\* line 372: self.cache_foreground_past_covariates != foreground_past_covariates
ComparePast(t) ==
    /\ call[t].pc = "compare past"
    /\ Moves(t, [call[t] EXCEPT !.pc = IF explainers.cache_foreground_past_covariates # call[t].inputs.items[2]
                                       THEN "build" ELSE "compare future"])

\* line 373: self.cache_foreground_future_covariates != foreground_future_covariates
CompareFuture(t) ==
    /\ call[t].pc = "compare future"
    /\ Moves(t, [call[t] EXCEPT !.pc = IF explainers.cache_foreground_future_covariates # call[t].inputs.items[3]
                                       THEN "build" ELSE "unchanged"])

\* the thread has built its matrix, or the builder raised
Built(t, foreground_X) ==
    IF ~foreground_X.ok THEN Ends(t, foreground_X, [call[t] EXCEPT !.pc = "done"])
    ELSE Moves(t, [call[t] EXCEPT !.pc = "set series", !.foreground_X = foreground_X.val])

\* lines 376-381: foreground_X = self._create_RegressionModel_shap_X(...)
Build(t) ==
    /\ call[t].pc = "build"
    /\ Built(t, _create_RegressionModel_shap_X(explainers.model.lags, call[t].inputs.items[1],
                                               call[t].inputs.items[2], call[t].inputs.items[3], 0))

\* line 382: self.cache_foreground_series = foreground_series
SetSeries(t) ==
    /\ call[t].pc = "set series"
    /\ Writes(t, [explainers EXCEPT !.cache_foreground_series = call[t].inputs.items[1]], "set past")
    /\ UNCHANGED trace

\* line 383: self.cache_foreground_past_covariates = foreground_past_covariates
SetPast(t) ==
    /\ call[t].pc = "set past"
    /\ Writes(t, [explainers EXCEPT !.cache_foreground_past_covariates = call[t].inputs.items[2]], "set future")
    /\ UNCHANGED trace

\* line 384: self.cache_foreground_future_covariates = foreground_future_covariates
SetFuture(t) ==
    /\ call[t].pc = "set future"
    /\ Writes(t, [explainers EXCEPT !.cache_foreground_future_covariates = call[t].inputs.items[3]], "set changed")
    /\ UNCHANGED trace

\* line 386: self.foreground_changed = True
SetChanged(t) ==
    /\ call[t].pc = "set changed"
    /\ Writes(t, [explainers EXCEPT !.foreground_changed = TRUE], "set X")
    /\ UNCHANGED trace

\* line 388: self.cache_foreground_X = foreground_X.copy()
SetX(t) ==
    /\ call[t].pc = "set X"
    /\ Writes(t, [explainers EXCEPT !.cache_foreground_X = call[t].foreground_X], "read X")
    /\ trace' = [trace EXCEPT !.X = t]

\* line 390: self.foreground_changed = False
SetUnchanged(t) ==
    /\ call[t].pc = "unchanged"
    /\ Writes(t, [explainers EXCEPT !.foreground_changed = FALSE], "read X")
    /\ UNCHANGED trace

\* the matrix the attribution is computed from: self.cache_foreground_X
\* (line 392), whatever the thread has built in foreground_X
CacheRead_Local(self, foreground_X) ==
    IF foreground_X = None THEN self.cache_foreground_X ELSE foreground_X
CacheRead(self, foreground_X) == self.cache_foreground_X

\* where shap_values_from_X goes with X (lines 402-418)
Dispatch(self) ==
    IF (self.target_dim > 1 \/ self.model.output_chunk_length > 1) /\ self.explainers.ty # "dict"
    THEN "read changed" ELSE "evaluate"

\* line 392: self.cache_foreground_X is read and passed to shap_values_from_X
ReadX(t) ==
    /\ call[t].pc = "read X"
    /\ Moves(t, [call[t] EXCEPT !.pc = Dispatch(explainers),
                                !.X = CacheRead(explainers, call[t].foreground_X),
                                !.readFrom = trace.X])

\* lines 405 and 418: an engine of (horizon, target), or the single engine,
\* is evaluated on X, and the Explanation is returned (lines 421-427)
Evaluate(t) ==
    /\ call[t].pc = "evaluate"
    /\ Ends(t, shap_values_from_X(explainers, call[t].X, call[t].horizon, call[t].target_name, 0, 0).out,
            [call[t] EXCEPT !.pc = "done", !.sliceFrom = call[t].readFrom])

\* line 409: if self.foreground_changed
ReadChanged(t) ==
    /\ call[t].pc = "read changed"
    /\ Moves(t, [call[t] EXCEPT !.pc = IF explainers.foreground_changed THEN "explain" ELSE "slice"])

\* line 410, right-hand side: self.explainers(X)
ExplainX(t) ==
    /\ call[t].pc = "explain"
    /\ Moves(t, [call[t] EXCEPT !.pc = "set cache_explainers", !.E = Explain(explainers.explainers, call[t].X)])

\* line 410, assignment: self.cache_explainers = ...
SetCacheExplainers(t) ==
    /\ call[t].pc = "set cache_explainers"
    /\ Writes(t, [explainers EXCEPT !.cache_explainers = call[t].E], "slice")
    /\ trace' = [trace EXCEPT !.E = call[t].readFrom]

\* lines 411-427: self.cache_explainers is read and sliced, and the
\* Explanation is returned
SliceCached(t) ==
    /\ call[t].pc = "slice"
    /\ Ends(t, CachedSlice(explainers, call[t].X, call[t].horizon, call[t].target_name, 0).out,
            [call[t] EXCEPT !.pc = "done", !.sliceFrom = trace.E])

\* the call of thread t has returned or raised
ThreadHanded(t) ==
    /\ call[t].pc = "done"
    /\ Ends(t, Return(None), Idle)

NextThreads ==
    \/ \E t \in Threads : Begin(t)
    \/ \E t \in Threads : CompareSeries(t)
    \/ \E t \in Threads : ComparePast(t)
    \/ \E t \in Threads : CompareFuture(t)
    \/ \E t \in Threads : Build(t)
    \/ \E t \in Threads : SetSeries(t)
    \/ \E t \in Threads : SetPast(t)
    \/ \E t \in Threads : SetFuture(t)
    \/ \E t \in Threads : SetChanged(t)
    \/ \E t \in Threads : SetX(t)
    \/ \E t \in Threads : SetUnchanged(t)
    \/ \E t \in Threads : ReadX(t)
    \/ \E t \in Threads : Evaluate(t)
    \/ \E t \in Threads : ReadChanged(t)
    \/ \E t \in Threads : ExplainX(t)
    \/ \E t \in Threads : SetCacheExplainers(t)
    \/ \E t \in Threads : SliceCached(t)
    \/ \E t \in Threads : ThreadHanded(t)

SpecThreads == InitThreads /\ [][NextThreads]_vars

\* the foreground matrix of the inputs of thread t
ThreadMatrix(t) ==
    _create_RegressionModel_shap_X(explainer.model.lags, ThreadInputs(t, explainers.target_dim)[1],
        ThreadInputs(t, explainers.target_dim)[2], ThreadInputs(t, explainers.target_dim)[3], 0).val

\* the call of thread t has returned an Explanation
ThreadReturned(t) == call[t].pc = "done" /\ outcome[t].ok

\* C10: two threads calling shap_values on one explainer race on the cache
\* of the last foreground: the attribution a call returns is computed from
\* the matrix that was in the cache when the call read it (or from which
\* the cached multi-output Explanation it read was computed), whichever
\* thread put it there, so that a call can return an attribution computed
\* from the matrix of the other call.
C10_ReturnsWhatTheCacheHeld ==
    \A t \in Threads :
       ThreadReturned(t)
          => /\ call[t].sliceFrom \in Threads
             /\ outcome[t].val.data = ThreadMatrix(call[t].sliceFrom)

\* C10 witness: a call has returned an attribution computed from the
\* matrix of the other thread, which is not the matrix of its own inputs
C10_Witness ==
    \E t \in Threads :
       /\ ThreadReturned(t)
       /\ call[t].sliceFrom # t
       /\ ThreadMatrix(t) # ThreadMatrix(call[t].sliceFrom)
       /\ outcome[t].val.data # ThreadMatrix(t)

\* a call has read the matrix of its own inputs and returned an attribution
\* sliced from the multi-output Explanation of the other thread's matrix
C10_ForeignCachedExplanation ==
    \E t \in Threads :
       /\ ThreadReturned(t)
       /\ call[t].readFrom = t
       /\ call[t].sliceFrom # t
       /\ call[t].X = ThreadMatrix(t)
       /\ outcome[t].val.data # ThreadMatrix(t)

(***************************************************************************)
(* The forecasting models exercised by the test harness.  A model is       *)
(* fitted on a target series, with future covariates if it takes them, and *)
(* predicts n time steps after the end of the series it predicts from.     *)
(***************************************************************************)
\* the longest forecast asked for (forecasting_horizon, pred_len)
MaxHorizon == 2

\* the model configurations: a model that takes no covariates, one that
\* takes future covariates, and one that also predicts from a new series
ForecastingModels ==
    {[name |-> "ExponentialSmoothing", dual |-> FALSE, transferable |-> FALSE],
     [name |-> "Prophet", dual |-> TRUE, transferable |-> FALSE],
     [name |-> "ARIMA", dual |-> TRUE, transferable |-> TRUE]}

\* a model as created: not fitted
Unfitted(config) ==
    [ty |-> "ForecastingModel", name |-> config.name, dual |-> config.dual,
     transferable |-> config.transferable, fit_called |-> FALSE,
     training_series |-> None, future_covariates |-> None, expect_covariate |-> FALSE,
     params |-> [series |-> None, future_covariates |-> None]]

\* series.end_time()
end_time(series) == series.start + series.len - 1

\* the later of two times, and the earlier
Later(a, b) == IF a >= b THEN a ELSE b
Earlier(a, b) == IF a <= b THEN a ELSE b

\* series[from : to]: the time steps of the series from time from to time to
slice(series, from, to) ==
    [series EXCEPT !.start = Later(series.start, from),
                   !.len = Later(0, Earlier(end_time(series), to) - Later(series.start, from) + 1)]

\* series.slice_intersect(other): the time steps of series within the span
\* of other
slice_intersect(series, other) == slice(series, other.start, end_time(other))

\* series.has_same_time_as(other)
has_same_time_as(series, other) == time_index(series) = time_index(other)

\* the model fitted on series with the covariates cut to the span of series
Fitted(self, series, future_covariates) ==
    [self |-> [self EXCEPT !.fit_called = TRUE, !.training_series = series,
                           !.future_covariates = future_covariates,
                           !.expect_covariate = (future_covariates # None),
                           !.params = [series |-> series, future_covariates |-> future_covariates]],
     out |-> Return(None)]

\* the covariates were cut to the span of series without looking at what
\* is left
Covering_Unchecked(series, future_covariates) ==
    IF future_covariates = None THEN Return(None)
    ELSE Return(slice_intersect(future_covariates, series))

\* the covariates of fit or predict, cut to the span of series, must hold
\* every time step of series
Covering(series, future_covariates) ==
    IF future_covariates = None THEN Return(None)
    ELSE IF ~has_same_time_as(slice_intersect(future_covariates, series), series) THEN Raise("ValueError")
    ELSE Return(slice_intersect(future_covariates, series))

\* fit, given the outcome of cutting the covariates
FitOn(self, series, covering) ==
    IF ~covering.ok THEN [self |-> self, out |-> covering]
    ELSE Fitted(self, series, covering.val)

\* model.fit(series, future_covariates=future_covariates)
fit(self, series, future_covariates) ==
    IF future_covariates # None /\ ~self.dual THEN [self |-> self, out |-> Raise("TypeError")]
    ELSE FitOn(self, series, Covering(series, future_covariates))

\* the window were taken as it comes, however many time steps it has
ForecastWindow_Unchecked(series, future_covariates, n) ==
    IF future_covariates = None THEN Return(None)
    ELSE Return(slice(future_covariates, end_time(series) + 1, end_time(series) + n))

\* the future covariates of the n time steps after series: there must be n
ForecastWindow(series, future_covariates, n) ==
    IF future_covariates = None THEN Return(None)
    ELSE IF slice(future_covariates, end_time(series) + 1, end_time(series) + n).len # n
    THEN Raise("ValueError")
    ELSE Return(slice(future_covariates, end_time(series) + 1, end_time(series) + n))

\* the forecast of the model from its series: one time step per time step
\* of the window, valued by the fitted parameters, the series predicted
\* from, its covariates and those of the window
Forecast(self, n, window) ==
    [ty |-> "TimeSeries", start |-> end_time(self.training_series) + 1,
     len |-> IF window = None THEN n ELSE window.len,
     cols |-> self.training_series.cols,
     values |-> [name |-> self.name, params |-> self.params, series |-> self.training_series,
                 future_covariates |-> self.future_covariates, window |-> window]]

\* the model with series (and the covariates of its span) in the place of
\* the training series, for a prediction from series
Transferred(self, series, historic_future_covariates) ==
    IF series = None THEN self
    ELSE [self EXCEPT !.training_series = series, !.future_covariates = historic_future_covariates]

\* after the prediction the model has its training series back
Restored_Kept(self, transferred) == transferred
Restored(self, transferred) == self

\* the forecast of the transferred model, or the error of the window
Forecasted(self, transferred, n, window) ==
    IF ~window.ok THEN [self |-> Restored(self, transferred), out |-> window]
    ELSE [self |-> Restored(self, transferred), out |-> Return(Forecast(transferred, n, window.val))]

\* predict from series (the training series if None), given the outcome of
\* cutting the covariates to its span
PredictFrom(self, n, series, future_covariates, historic) ==
    IF ~historic.ok THEN [self |-> self, out |-> historic]
    ELSE Forecasted(self, Transferred(self, series, historic.val), n,
                    ForecastWindow(IF series = None THEN self.training_series ELSE series, future_covariates, n))

\* model.predict(n, series=series, future_covariates=future_covariates)
predict(self, n, series, future_covariates) ==
    IF (series # None /\ ~self.transferable) \/ (future_covariates # None /\ ~self.dual)
    THEN [self |-> self, out |-> Raise("TypeError")]
    ELSE IF ~self.fit_called THEN [self |-> self, out |-> Raise("ValueError")]
    ELSE IF self.expect_covariate # (future_covariates # None) THEN [self |-> self, out |-> Raise("ValueError")]
    ELSE PredictFrom(self, n, series, future_covariates,
                     IF series = None THEN Return(self.future_covariates) ELSE Covering(series, future_covariates))

\* the model were written out as one that was never fitted
dumps_Unfitted(self) ==
    <<self.name, self.dual, self.transferable, FALSE, self.training_series,
      self.future_covariates, self.expect_covariate, self.params>>

\* the model written out field by field, and read back
dumps(self) ==
    <<self.name, self.dual, self.transferable, self.fit_called, self.training_series,
      self.future_covariates, self.expect_covariate, self.params>>
loads(bytes) ==
    [ty |-> "ForecastingModel", name |-> bytes[1], dual |-> bytes[2], transferable |-> bytes[3],
     fit_called |-> bytes[4], training_series |-> bytes[5], future_covariates |-> bytes[6],
     expect_covariate |-> bytes[7], params |-> bytes[8]]

\* the paths of the test: the default path of save(), the path named after
\* the class of the model, and the path of the stream opened for writing
Paths(self) == {<<self.name, "_timestamp.pkl">>, <<self.name, "">>, <<self.name, "_f">>}

\* model.save(path), save() and save(stream): the model is written to the
\* file, which is created or replaced; saved is the model that was saved
save(self, dir, path) ==
    {f \in dir : f.path # path} \cup {[path |-> path, bytes |-> dumps(self), saved |-> self]}

\* type(model).load(path)
load(dir, path) ==
    IF \A f \in dir : f.path # path THEN Raise("FileNotFoundError")
    ELSE Return(loads((CHOOSE f \in dir : f.path = path).bytes))

\* the series of the test: the training series and another target series
Series1 == TimeSeries(1, MaxHorizon, MaxLen, <<"a">>)
Series2 == TimeSeries(2, MaxHorizon + 1, MaxLen, <<"a">>)

\* future covariates for a series: starting before it, with it or one step
\* into it, and ending with it or up to MaxHorizon steps after it
CovariatesFor(id, series) ==
    {TimeSeries(id, series.start - before, series.len + before + after, <<"x">>) :
        before \in {-1, 0, MaxHorizon}, after \in 0..MaxHorizon}

\* covariates of fewer time steps than the longest forecast, starting
\* where the longest covariates for the series start
ShortCovariates(id, series) ==
    TimeSeries(id, series.start - MaxHorizon, MaxHorizon - 1, <<"x">>)

\* the covariates a prediction may be given: none, or some for the series
\* it predicts from
PredictCovariates(series) ==
    {None} \cup (IF series = None
                 THEN CovariatesFor(5, Series1) \cup {ShortCovariates(5, Series1)}
                 ELSE CovariatesFor(6, series) \cup {ShortCovariates(6, series)})

InitForecast ==
    /\ explainer = None
    /\ explainers = None
    /\ call = NoCall
    /\ outcome = Return(None)
    /\ trace = NoTrace
    /\ clean = TRUE
    /\ forecaster \in {Unfitted(config) : config \in ForecastingModels}
    /\ files = {}

\* the state after an operation r of the model
Operated(c, r) ==
    /\ forecaster' = r.self
    /\ call' = c
    /\ outcome' = r.out
    /\ UNCHANGED <<explainer, explainers, trace, clean, files>>

\* the test fits the model
Fit ==
    \E future_covariates \in {None} \cup CovariatesFor(5, Series1) :
       Operated([op |-> "fit", series |-> Series1, future_covariates |-> future_covariates],
                fit(forecaster, Series1, future_covariates))

\* what a later call keeps of the call before it: the operation, the
\* series predicted from and whether it returned
Before ==
    [op |-> call.op, series |-> IF call.op = "predict" THEN call.series ELSE None, ok |-> outcome.ok]

\* the test predicts n time steps; after is the call before this one
Predict ==
    \E n \in 1..MaxHorizon, series \in {None, Series2} :
       \E future_covariates \in PredictCovariates(series) :
          Operated([op |-> "predict", n |-> n, series |-> series, future_covariates |-> future_covariates,
                    after |-> Before],
                   predict(forecaster, n, series, future_covariates))

\* the test saves the model to one of the paths
Save ==
    \E path \in Paths(forecaster) :
       /\ files' = save(forecaster, files, path)
       /\ call' = [op |-> "save", path |-> path]
       /\ outcome' = Return(None)
       /\ UNCHANGED <<explainer, explainers, trace, clean, forecaster>>

\* the test loads a model from one of the paths
Load ==
    \E path \in Paths(forecaster) :
       /\ call' = [op |-> "load", path |-> path]
       /\ outcome' = load(files, path)
       /\ UNCHANGED <<explainer, explainers, trace, clean, forecaster, files>>

NextForecast == Fit \/ Predict \/ Save \/ Load

SpecForecast == InitForecast /\ [][NextForecast]_vars

\* the last operation is a prediction that returned a forecast
Predicted == call.op = "predict" /\ outcome.ok

\* the model was fitted with covariates that start before the training
\* series and end after it
FittedWithLongerCovariates ==
    /\ forecaster.params.future_covariates # None
    /\ call.future_covariates # None
    /\ call.future_covariates.start < forecaster.params.series.start
    /\ end_time(call.future_covariates) > end_time(forecaster.params.series)

\* the series the prediction is from
PredictedFrom == IF call.series = None THEN forecaster.training_series ELSE call.series

\* the prediction has what it needs: covariates exactly when the model was
\* fitted with some, and then covariates that hold the span of the series
\* predicted from (when it is a new one) and the n time steps after it
Covered ==
    /\ call.op = "predict"
    /\ call.series # None => forecaster.transferable
    /\ forecaster.fit_called
    /\ forecaster.expect_covariate = (call.future_covariates # None)
    /\ call.future_covariates # None
          => /\ call.series # None => time_index(call.series) \subseteq time_index(call.future_covariates)
             /\ (end_time(PredictedFrom) + 1)..(end_time(PredictedFrom) + call.n)
                   \subseteq time_index(call.future_covariates)

\* C11: for every model configuration and every horizon n, predict(n)
\* after fit returns a forecast of exactly n time steps, the n steps after
\* the series, also when the model was fitted and predicts with future
\* covariates that start before the target and end after it.
C11_ForecastHasRequestedLength ==
    /\ Covered => outcome.ok
    /\ Predicted
          => /\ Cardinality(time_index(outcome.val)) = call.n
             /\ time_index(outcome.val) = (end_time(PredictedFrom) + 1)..(end_time(PredictedFrom) + call.n)

\* C11 witness: a forecast of MaxHorizon steps of a model fitted and
\* predicting with covariates longer than the target on both sides
C11_Witness ==
    /\ Predicted
    /\ call.series = None
    /\ FittedWithLongerCovariates
    /\ call.n = MaxHorizon
    /\ Cardinality(time_index(outcome.val)) = MaxHorizon

\* the file at the path of the last save or load
FileAtPath == CHOOSE f \in files : f.path = call.path

\* a model was loaded from a file
Loaded == call.op = "load" /\ outcome.ok

PredictedWithExpectedCovariates ==
    /\ call.op = "predict"
    /\ forecaster.fit_called
    /\ forecaster.expect_covariate
    /\ call.series # None => forecaster.transferable

\* the covariates given do not hold the n time steps after the series
WindowMissing ==
    /\ call.future_covariates # None
    /\ ~((end_time(PredictedFrom) + 1)..(end_time(PredictedFrom) + call.n)
            \subseteq time_index(call.future_covariates))

\* the covariates given have fewer than n time steps
ShorterThanHorizon ==
    /\ call.future_covariates # None
    /\ Cardinality(time_index(call.future_covariates)) < call.n

\* the covariates given do not hold the time steps of the new target series
HistoryMissing ==
    /\ call.series # None
    /\ call.future_covariates # None
    /\ ~(time_index(call.series) \subseteq time_index(call.future_covariates))

\* C13: a model fitted with future covariates raises ValueError on
\* predict(n) when the covariates given have fewer than n time steps, end
\* before the forecast window does, lack the history of a new target
\* series, or are omitted.
C13_UncoveredPredictionRaises ==
    PredictedWithExpectedCovariates
       /\ (call.future_covariates = None \/ ShorterThanHorizon \/ WindowMissing \/ HistoryMissing)
       => ~outcome.ok /\ outcome.err = "ValueError"

\* C13 witness: a prediction from a new target series raised because the
\* covariates, which hold the forecast window, start after the series does
C13_Witness ==
    /\ PredictedWithExpectedCovariates
    /\ HistoryMissing
    /\ ~WindowMissing
    /\ ~outcome.ok
    /\ outcome.err = "ValueError"

\* a prediction of the longest horizon was given covariates of fewer time
\* steps and raised
C13_ShortCovariatesRaise ==
    /\ PredictedWithExpectedCovariates
    /\ ShorterThanHorizon
    /\ ~outcome.ok

\* the model as it was right after it was fitted: a new model of the same
\* configuration fitted on the series and covariates this one was fitted on
FreshlyFitted ==
    fit(Unfitted([name |-> forecaster.name, dual |-> forecaster.dual,
                  transferable |-> forecaster.transferable]),
        forecaster.params.series, forecaster.params.future_covariates).self

\* the last operation is a prediction from the training series that
\* returned a forecast
PredictedFromTraining == Predicted /\ call.series = None

PerOutputPath == explainers.ty # "None" /\ explainers.explainers.ty = "dict"

\* the helper object has one engine for several outputs
NativePath ==
    /\ explainers.ty # "None"
    /\ explainers.explainers.ty # "dict"
    /\ (explainers.target_dim > 1 \/ explainers.model.output_chunk_length > 1)

\* the (horizon, target index) pairs of the model
OutputPairs == (0..(explainers.model.output_chunk_length - 1)) \X (0..(explainers.target_dim - 1))

\* the sub-estimator the engine of pair p wraps
Wrapped(p) == explainers.explainers.at[p[1]][p[2]].est

\* C15: on the per-output path there is one engine per (horizon i, target
\* index j), the engine of (i, j) wraps the sub-estimator of output column
\* i * target_dim + j, and distinct pairs wrap distinct sub-estimators.
C15_EngineWrapsItsOutputColumn ==
    PerOutputPath
       => /\ DOMAIN explainers.explainers.at = 0..(explainers.model.output_chunk_length - 1)
          /\ \A i \in DOMAIN explainers.explainers.at :
                DOMAIN explainers.explainers.at[i] = 0..(explainers.target_dim - 1)
          /\ \A p \in OutputPairs : Wrapped(p) = <<p[1] * explainers.target_dim + p[2]>>
          /\ \A p, q \in OutputPairs : p # q => Wrapped(p) # Wrapped(q)

\* a call of the helper's shap_values on the native multi-output path, for
\* a horizon and a target of the model, returned
NativeCallReturned ==
    /\ NativePath
    /\ call.op = "RegressionShapExplainers.shap_values"
    /\ call.horizon \in 0..(explainers.model.output_chunk_length - 1)
    /\ call.target_name \in DOMAIN explainers.target_dict
    /\ outcome.ok

\* C16: on the native multi-output path the attribution returned for
\* horizon h and the target of index j is the slice at output position
\* h * target_dim + j of the multi-output attribution.
C16_SliceAtOutputPosition ==
    NativeCallReturned
       => outcome.val.out = <<call.horizon * explainers.target_dim + explainers.target_dict[call.target_name]>>

(***************************************************************************)
(* ShapExplainer.summary_plot, and calls of it between the calls of the    *)
(* helper's shap_values on one explainer.  What the operation did is kept  *)
(* in trace: the engine evaluations, whether the background matrix was     *)
(* sampled, and the plots drawn, each with its title, the attribution and  *)
(* the feature matrix handed to the plotting function.                     *)
(***************************************************************************)
\* the largest nb_samples asked for (0: unspecified)
MaxSamples == 1

\* the k-th smallest of a set of row positions
Kth(keep, k) == CHOOSE x \in keep : Cardinality({y \in keep : y < x}) = k - 1

\* shap.utils.sample(X, nb_samples): X when it has no more rows than that,
\* else nb_samples of its rows; keep is the positions the library draws
sample(X, nb_samples, keep) ==
    IF Len(X.rows) <= nb_samples THEN X
    ELSE [X EXCEPT !.rows = [k \in 1..nb_samples |-> X.rows[Kth(keep, k)]]]

\* lines 255-260: the background matrix, sampled when nb_samples is given
\* and not zero
foreground_X_sampled(self, nb_samples, keep) ==
    IF nb_samples # 0 THEN sample(self.background_X, nb_samples, keep) ELSE self.background_X

\* the (target, horizon) pairs of the loops of lines 268-269, in order
PlotPairs(target_names, horizons) ==
    [k \in 1..(Len(target_names) * Len(horizons)) |->
        <<target_names[((k - 1) \div Len(horizons)) + 1], horizons[((k - 1) % Len(horizons)) + 1]>>]

\* max(horizons)
Max(items) == CHOOSE x \in Elements(items) : \A y \in Elements(items) : y <= x

\* what summary_plot did so far on the helper object self
Plotting(self, out, evals, samples, plots) ==
    [self |-> self, out |-> out, evals |-> evals, samples |-> samples, plots |-> plots]

RECURSIVE PlotLoop(_, _, _, _)
\* lines 270-276: the attribution r of the first pair is plotted over X
\* under the title of the pair, then the loop goes on; an exception ends it
PlotStep(r, o, X, pairs, failAt) ==
    IF ~r.out.ok THEN Plotting(r.self, r.out, r.evals, o.samples, o.plots)
    ELSE PlotLoop(Plotting(r.self, r.out, r.evals, o.samples,
                           Append(o.plots, [target |-> pairs[1][1], horizon |-> pairs[1][2],
                                            shap_values |-> r.out.val, features |-> X])),
                  X, Tail(pairs), failAt)

\* the loops of lines 268-276 over the pairs left
PlotLoop(o, X, pairs, failAt) ==
    IF pairs = <<>> THEN [o EXCEPT !.out = Return(None)]
    ELSE PlotStep(shap_values_from_X(o.self, X, pairs[1][2], pairs[1][1], o.evals, failAt),
                  o, X, pairs, failAt)

\* lines 255-276, with the matrix X to explain
PlotAll(this, self, X, samples, target_names, horizons, failAt) ==
    PlotLoop(Plotting(self, Return(None), 0, samples, <<>>), X,
             PlotPairs(OrAll(target_names, this.target_names),
                       OrAll(horizons, range(this.model.output_chunk_length))),
             failAt)

\* ShapExplainer.summary_plot (lines 206-276): the target names are
\* checked when given, then the largest horizon when horizons are given
\* (max raises on an empty list), then the plots are drawn
summary_plot(this, self, target_names, horizons, nb_samples, keep, failAt) ==
    IF target_names.ty # "None"
          /\ \E i \in 1..Len(target_names.items) : target_names.items[i] \notin Elements(this.target_names)
    THEN Plotting(self, Raise("ValueError"), 0, 0, <<>>)
    ELSE IF horizons.ty # "None" /\ horizons.items = <<>> THEN Plotting(self, Raise("ValueError"), 0, 0, <<>>)
    ELSE IF horizons.ty # "None" /\ Max(horizons.items) > this.n - 1
    THEN Plotting(self, Raise("ValueError"), 0, 0, <<>>)
    ELSE PlotAll(this, self, foreground_X_sampled(self, nb_samples, keep),
                 IF nb_samples # 0 THEN 1 ELSE 0, target_names, horizons, failAt)

\* the horizons of a plot: those of a request, a negative one, or none
PlotHorizonChoices == HorizonChoices \cup {List(<<-1>>), List(<<>>)}

\* the row positions the library may draw for nb_samples rows of X
Draws(X, nb_samples) == {keep \in SUBSET (1..Len(X.rows)) : Cardinality(keep) = nb_samples}

\* the state after the call r of summary_plot; X is the matrix it explains
PlotCalled(target_names, horizons, nb_samples, X, r) ==
    /\ explainers' = r.self
    /\ call' = [op |-> "summary_plot", target_names |-> target_names, horizons |-> horizons,
                nb_samples |-> nb_samples, X |-> X, inputs |-> call.inputs]
    /\ outcome' = r.out
    /\ trace' = [warnings |-> 0, builds |-> 0, evals |-> r.evals, samples |-> r.samples, plots |-> r.plots]
    /\ clean' = (clean /\ r.out.ok)
    /\ UNCHANGED <<forecaster, files>>
    /\ UNCHANGED explainer

\* the caller asks for the summary plots
SummaryPlot ==
    /\ call.op = "handed"
    /\ explainers.ty # "None"
    /\ \E target_names \in TargetNameChoices, horizons \in PlotHorizonChoices,
          nb_samples \in 0..MaxSamples, failAt \in 0..MaxFail :
          \E keep \in Draws(explainers.background_X, nb_samples) :
             PlotCalled(target_names, horizons, nb_samples,
                        foreground_X_sampled(explainers, nb_samples, keep),
                        summary_plot(explainer, explainers, target_names, horizons, nb_samples, keep, failAt))

\* summary_plot has returned or raised
PlotHanded ==
    /\ call.op = "summary_plot"
    /\ call' = [op |-> "handed", inputs |-> call.inputs]
    /\ outcome' = Return(None)
    /\ trace' = NoTrace
    /\ UNCHANGED <<explainer, explainers, clean, forecaster, files>>

NextPlot == Construct \/ HelperCall \/ HelperHanded \/ SummaryPlot \/ PlotHanded

SpecPlot == Init /\ [][NextPlot]_vars

\* the attribution is computed from the matrix X: its values are those of
\* X and its time index is the index of X
ComputedFrom(explanation, X) == explanation.data = X /\ explanation.time_index = Index(X)

\* C17: on the native multi-output path, whatever calls of shap_values and
\* summary_plot came before, every attribution shap_values_from_X returns
\* is computed from the matrix passed to it: the matrix of the foreground
\* inputs for shap_values, the (sampled) background matrix for each plot of
\* summary_plot.
C17_ComputedFromTheMatrixPassed ==
    NativePath
       => /\ (call.op = "RegressionShapExplainers.shap_values" /\ outcome.ok)
                => ComputedFrom(outcome.val, InputsMatrix.val)
          /\ call.op = "summary_plot"
                => \A k \in 1..Len(trace.plots) : ComputedFrom(trace.plots[k].shap_values, call.X)

\* a call of the helper's shap_values on the native multi-output path
\* rebuilt the foreground matrix and then failed in the attribution engine
FailedAfterRebuild ==
    /\ NativePath
    /\ call.op = "RegressionShapExplainers.shap_values"
    /\ ~outcome.ok
    /\ outcome.err = "LibraryError"
    /\ trace.builds = 1

\* what a following call with the same foreground inputs returns or
\* raises when the engine does not fail again
FollowingCall(horizon, target_name) ==
    shap_values(explainers, call.inputs.items[1], call.inputs.items[2], call.inputs.items[3],
                horizon, target_name, Traced(Outcome(explainers, Return(None), 0), 0, 0), 0).out

\* C18: when a shap_values call for a new foreground fails in the
\* attribution engine after the foreground matrix was rebuilt, a following
\* call with the same inputs returns the attribution of that foreground,
\* for every horizon and target of the model.
C18_FailedAttributionLeavesCacheUsable ==
    FailedAfterRebuild
       => \A h \in 0..(explainers.model.output_chunk_length - 1), t \in DOMAIN explainers.target_dict :
             /\ FollowingCall(h, t).ok
             /\ ComputedFrom(FollowingCall(h, t).val, InputsMatrix.val)

\* the call of the helper's shap_values failed before a matrix was built
\* and cached
FailedBeforeRebuild == call'.op = "RegressionShapExplainers.shap_values" /\ ~outcome'.ok /\ trace'.builds = 0

\* a call that fails before the matrix is cached (the inputs cannot be
\* aligned, or the matrix cannot be built) leaves the cached inputs and the
\* cached matrix as they were
FailedBuildLeavesCache ==
    [][FailedBeforeRebuild
          => /\ explainers'.cache_foreground_series = explainers.cache_foreground_series
             /\ explainers'.cache_foreground_past_covariates = explainers.cache_foreground_past_covariates
             /\ explainers'.cache_foreground_future_covariates = explainers.cache_foreground_future_covariates
             /\ explainers'.cache_foreground_X = explainers.cache_foreground_X]_vars

\* the arguments of summary_plot name background targets only and
\* horizons of 0..n-1 only
PlotArgumentsValid ==
    /\ call.target_names.ty # "None"
          => Elements(call.target_names.items) \subseteq Elements(explainer.target_names)
    /\ call.horizons.ty # "None" => Elements(call.horizons.items) \subseteq 0..(explainer.n - 1)

\* summary_plot raised the error of its argument checks
ValidationRaised == ~outcome.ok /\ outcome.err = "ValueError"

\* the (target, horizon) pairs of the plots drawn, in order
PlotsDrawn == [k \in 1..Len(trace.plots) |-> <<trace.plots[k].target, trace.plots[k].horizon>>]

\* C19: summary_plot raises its validation error exactly when a target
\* name is no background target or a horizon is outside 0..n-1, and then
\* nothing was computed, sampled or plotted; when it returns it has drawn
\* exactly one plot per (target, horizon) pair, unspecified horizons being
\* all of 0..n-1.
C19_PlotValidatesFirst ==
    call.op = "summary_plot"
       => /\ ValidationRaised <=> ~PlotArgumentsValid
          /\ ValidationRaised => trace.evals = 0 /\ trace.samples = 0 /\ trace.plots = <<>>
          /\ outcome.ok
                => PlotsDrawn = PlotPairs(OrAll(call.target_names, explainer.target_names),
                                          OrAll(call.horizons, range(explainer.n)))

\* what holds of the code: a raised check leaves nothing computed, sampled
\* or plotted, and a call that returns has drawn one plot per pair
PlotChecksComeFirst ==
    call.op = "summary_plot"
       => /\ ValidationRaised => trace.evals = 0 /\ trace.samples = 0 /\ trace.plots = <<>>
          /\ ~PlotArgumentsValid /\ (call.horizons.ty = "None" \/ -1 \notin Elements(call.horizons.items))
                => ValidationRaised
          /\ outcome.ok
                => PlotsDrawn = PlotPairs(OrAll(call.target_names, explainer.target_names),
                                          OrAll(call.horizons, range(explainer.n)))

====
